---- MODULE Spec2Model ----
(***************************************************************************)
(* A model of the interpreter bridge of if-gym:                            *)
(*   packages/interpreters/src/ifvms-adapter.ts  (class IFVMSAdapter)      *)
(*   packages/core/src/types.ts                  (BaseInterpreter.state)   *)
(* and of the turn loop that drives it:                                    *)
(*   packages/core/src/session.ts                (GameSession.run)         *)
(* with the agents and language models that decide the commands:          *)
(*   packages/core/src/agent.ts                  (BaseAgent)               *)
(*   packages/agents/src/*.ts                    (act, the goals document) *)
(*   packages/models/src/chat.ts                 (generateAction)          *)
(*                                                                         *)
(* Strings are sequences of one-character strings.  The engine (ifvms +    *)
(* glkote-term) is an external collaborator: what it does inside           *)
(* glk.init() and which update events it sends are nondeterministic.       *)
(* A promise returned by start() or executeCommand() is an entry of the    *)
(* log `promises`; the resolve function of promise i is the number i.      *)
(***************************************************************************)
EXTENDS Integers, Sequences, FiniteSets, TLC

(* ---------------------------- bounds ---------------------------------- *)
MaxCalls == 3      \* start()/executeCommand() invocations in one behaviour
MaxBufLen == 4     \* characters the output buffer may hold
MaxGen == 2        \* largest generation number an update event carries
MaxScript == 3     \* input requests a scripted engine raises at most
MaxTurnsConfig == 2 \* largest maxTurns a session is configured with
MaxDocLines == 2   \* lines of the goals document
MaxDiffLines == 3  \* lines of a diff

(* ------------------------ values and sentinels ------------------------ *)
Null == 0          \* JS null: no resolver / no window (ids start at 1)
Undefined == -1    \* JS undefined for the numeric field data.gen
NL == "\n"
SP == " "
Whitespace == {SP, NL}


VARIABLES
    (* fields of IFVMSAdapter *)
    outputBuffer, inputResolver, isRunning, currentWindowId,
    pendingInputType, generation, keepAliveTimer, glkOptions,
    (* BaseInterpreter.state *)
    state,
    (* the event loop: callbacks scheduled with setImmediate *)
    immediates,
    (* observation of the program's outputs *)
    promises,      \* every promise returned by start()/executeCommand()
    accepted,      \* every event passed to options.accept, in order
    (* history variables the claims are stated with *)
    fresh,         \* text extracted from the updates of the latest delivery/start,
                   \* up to the first one that carries a line/char input request
    latestGen,     \* gen of the most recent update that had one, else 0
    gensOrdered,   \* the engine has never sent a gen lower than latestGen
    awaiting,      \* a delivery/start() has not yet been answered by an
                   \* update that carries a line/char input request
    disposed,      \* dispose() has been called
    (* GameSession: its config, the position of run(), its locals, result *)
    session,
    (* what is known of the engine: its script and whether it has failed *)
    engine,
    (* a second bridge and a second session, while the first is at work *)
    peer,
    (* a language model's generateAction: its position, locals and result; *)
    (* and the agent that called it: its act() and its goals document      *)
    model

vars == << outputBuffer, inputResolver, isRunning, currentWindowId,
           pendingInputType, generation, keepAliveTimer, glkOptions,
           state, immediates, promises, accepted,
           fresh, latestGen, gensOrdered, awaiting, disposed,
           session, engine, peer, model >>

bridgeVars == << outputBuffer, inputResolver, isRunning, currentWindowId,
                 pendingInputType, generation, keepAliveTimer, glkOptions, state >>

(* --------------------------- string helpers --------------------------- *)
RECURSIVE TrimStart(_)
TrimStart(s) ==
    IF s # <<>> /\ Head(s) \in Whitespace THEN TrimStart(Tail(s)) ELSE s

RECURSIVE TrimEnd(_)
TrimEnd(s) ==
    IF s # <<>> /\ s[Len(s)] \in Whitespace
    THEN TrimEnd(SubSeq(s, 1, Len(s) - 1)) ELSE s

\* String.prototype.trim
Trim(s) == TrimEnd(TrimStart(s))

Last(s) == s[Len(s)]

(* -------------------- update events sent by the engine ---------------- *)
\* A part of a line's content array: a string primitive or an object
\* whose text field is `text` (empty = no text field).
StrPart(t) == [isNull |-> FALSE, isString |-> TRUE, text |-> t]
ObjPart(t) == [isNull |-> FALSE, isString |-> FALSE, text |-> t]
\* A line entry: an object with a content array, an object without one,
\* or a string primitive.
ContentLine(parts) == [isNull |-> FALSE, isString |-> FALSE, str |-> <<>>, hasContent |-> TRUE, content |-> parts]
EmptyLine == [isNull |-> FALSE, isString |-> FALSE, str |-> <<>>, hasContent |-> FALSE, content |-> <<>>]
StringLine(t) == [isNull |-> FALSE, isString |-> TRUE, str |-> t, hasContent |-> FALSE, content |-> <<>>]
\* A content block: a buffer window carries `text`, a grid window `lines`.
TextBlock(ls) == [isNull |-> FALSE, hasText |-> TRUE, text |-> ls, hasLines |-> FALSE, lines |-> <<>>]
GridBlock(ls) == [isNull |-> FALSE, hasText |-> FALSE, text |-> <<>>, hasLines |-> TRUE, lines |-> ls]

\* null where a part, a line entry or a content block is expected
NullPart == [isNull |-> TRUE, isString |-> FALSE, text |-> <<>>]
NullLine == [isNull |-> TRUE, isString |-> FALSE, str |-> <<>>, hasContent |-> FALSE, content |-> <<>>]
NullBlock == [isNull |-> TRUE, hasText |-> FALSE, text |-> <<>>, hasLines |-> FALSE, lines |-> <<>>]

\* content arrays of update events (an absent array is the empty one)
ContentNone == <<>>
\* buffer window, one styled run "a":                          "a\n"
ContentA == << TextBlock(<< ContentLine(<< StrPart(<<"s">>), StrPart(<<"a">>) >>) >>) >>
\* grid window, one object part "b":                           "b\n"
ContentB == << GridBlock(<< ContentLine(<< ObjPart(<<"b">>) >>) >>) >>
\* buffer window: a blank string line, an object part " a", a line entry
\* without content:                                            "\n a\n"
ContentBlankA == << TextBlock(<< StringLine(<<>>), ContentLine(<< ObjPart(<<SP, "a">>) >>), EmptyLine >>) >>

\* input arrays of update events (an absent array is the empty one)
InputNone == <<>>
InputLine == << [isNull |-> FALSE, type |-> "line", id |-> 1] >>
InputChar == << [isNull |-> FALSE, type |-> "char", id |-> 2] >>
InputOther == << [isNull |-> FALSE, type |-> "hyperlink", id |-> 1] >>
InputOtherLine == << [isNull |-> FALSE, type |-> "hyperlink", id |-> 2],
                     [isNull |-> FALSE, type |-> "line", id |-> 1] >>
\* null where an input request is expected
NullRequest == [isNull |-> TRUE, type |-> "null", id |-> Null]

Gens == {Undefined} \cup (0 .. MaxGen)

\* The inputs each specification draws from.  Spec explores the lifecycle
\* (every outcome of glk.init, repeated start(), dispose) with few events;
\* SpecText, SpecGen and SpecInput boot the engine normally and vary the
\* text, the generation, and the input requests and commands.
Events == [gen : {Undefined}, disable : {FALSE},
           content : {ContentNone, ContentA}, input : {InputNone, InputLine}]
Commands == { <<"g", "o">> }

TextEvents == [gen : {Undefined}, disable : {FALSE},
               content : {ContentNone, ContentA, ContentB, ContentBlankA},
               input : {InputNone, InputLine, InputOther}]

GenEvents == [gen : Gens, disable : {FALSE},
              content : {ContentNone}, input : {InputNone, InputLine}]

InputEvents == [gen : {Undefined}, disable : BOOLEAN, content : {ContentNone},
                input : {InputNone, InputLine, InputChar, InputOther, InputOtherLine}]
InputCommands == { <<>>, <<"n">>, <<"g", "o">> }

(* ---------------- handleUpdate: text extraction (146-176) ------------- *)
\* buffer window, part at 1-based position k (JS index i = k - 1)
TextPart(part, k) ==
    IF part.isString
    THEN IF (k - 1) % 2 = 1 THEN part.text ELSE <<>>
    ELSE part.text

\* grid window: only objects have a text field
GridPart(part) == IF part.isString THEN <<>> ELSE part.text

RECURSIVE TextParts(_, _)
TextParts(parts, k) ==
    IF k > Len(parts) THEN <<>>
    ELSE TextPart(parts[k], k) \o TextParts(parts, k + 1)

RECURSIVE GridParts(_)
GridParts(parts) ==
    IF parts = <<>> THEN <<>>
    ELSE GridPart(Head(parts)) \o GridParts(Tail(parts))

TextLine(line) ==
    IF line.hasContent THEN TextParts(line.content, 1) \o <<NL>>
    ELSE IF line.isString THEN line.str \o <<NL>>
    ELSE <<>>

GridLine(line) ==
    IF line.hasContent THEN GridParts(line.content) \o <<NL>> ELSE <<>>

RECURSIVE TextLines(_)
TextLines(ls) ==
    IF ls = <<>> THEN <<>> ELSE TextLine(Head(ls)) \o TextLines(Tail(ls))

RECURSIVE GridLines(_)
GridLines(ls) ==
    IF ls = <<>> THEN <<>> ELSE GridLine(Head(ls)) \o GridLines(Tail(ls))

BlockText(block) ==
    IF block.hasText THEN TextLines(block.text)
    ELSE IF block.hasLines THEN GridLines(block.lines)
    ELSE <<>>

\* everything one update event appends to the output buffer
RECURSIVE ExtractText(_)
ExtractText(content) ==
    IF content = <<>> THEN <<>>
    ELSE BlockText(Head(content)) \o ExtractText(Tail(content))

\* data.input.find(i => i.type === 'line' || i.type === 'char'):
\* position of the first such entry, 0 when there is none
\* a slip on line 179: the first entry is taken whatever its type
FindInputReq_any(input, k) == IF k > Len(input) THEN 0 ELSE k

RECURSIVE FindInputReq(_, _)
FindInputReq(input, k) ==
    IF k > Len(input) THEN 0
    ELSE IF input[k].type \in {"line", "char"} THEN k
    ELSE FindInputReq(input, k + 1)

(* ------------------------------ Init ---------------------------------- *)
\* BaseInterpreter.state (types.ts 93-97); the timestamp of a turn is left out
InitialState == [turnNumber |-> 0, history |-> <<>>, isEnded |-> FALSE]

\* no GameSession: the bridge is called directly; the agent a session is
\* given is as BaseAgent constructs it (agent.ts 75-76)
NoSession ==
    [pc |-> "none", maxTurns |-> 0, turnNumber |-> 0, history |-> <<>>,
     promise |-> Null, command |-> <<>>, gameEnded |-> FALSE, handed |-> <<>>,
     error |-> <<>>, result |-> <<>>, endSeen |-> FALSE,
     failedCall |-> "none", failedTurn |-> 0, observeFailures |-> 0,
     agent |-> [turnCount |-> 0, commandHistory |-> <<>>]]

\* an engine that follows no script
NoEngine ==
    [script |-> 0, left |-> 0, terminated |-> FALSE, failed |-> FALSE, threw |-> FALSE,
     inCall |-> "none"]

\* field initialisers of IFVMSAdapter (14-20); load() has prepared the vm
BridgeInit ==
    /\ outputBuffer = <<>>
    /\ inputResolver = Null
    /\ isRunning = FALSE
    /\ currentWindowId = Null
    /\ pendingInputType = "null"
    /\ generation = 0
    /\ keepAliveTimer = "null"
    /\ glkOptions = "undefined"
    /\ state = InitialState
    /\ immediates = 0
    /\ promises = <<>>
    /\ accepted = <<>>
    /\ fresh = <<>>
    /\ latestGen = 0
    /\ gensOrdered = TRUE
    /\ awaiting = FALSE
    /\ disposed = FALSE

\* a bridge as its constructor leaves it (14-20, types.ts 93-97), with the
\* history variables of its own
NewBridge(id) ==
    [id |-> id, outputBuffer |-> <<>>, inputResolver |-> Null, isRunning |-> FALSE,
     currentWindowId |-> Null, pendingInputType |-> "null", generation |-> 0,
     keepAliveTimer |-> "null", glkOptions |-> "undefined", state |-> InitialState,
     immediates |-> 0, promises |-> <<>>, accepted |-> <<>>, fresh |-> <<>>,
     latestGen |-> 0, gensOrdered |-> TRUE, awaiting |-> FALSE, disposed |-> FALSE]

\* no second bridge is used and no second session runs
NoPeer == [bridge |-> NewBridge("B"), session |-> NoSession]

\* no generateAction is in progress, and no act() of an agent that would
\* call it
NoModel ==
    [pc |-> "idle", api |-> "chat", hasHandler |-> FALSE, loops |-> 0, rounds |-> 0,
     toolCalls |-> 0, text |-> <<>>, pendingTools |-> 0, outputs |-> 0,
     answered |-> TRUE, result |-> <<>>,
     act |-> [pc |-> "idle", agent |-> "none", threw |-> FALSE, result |-> <<>>],
     goals |-> [goalsMarkdown |-> <<>>, before |-> <<>>, diff |-> <<>>,
                patched |-> FALSE, pushed |-> <<>>]]

Init ==
    /\ BridgeInit
    /\ session = NoSession
    /\ engine = NoEngine
    /\ peer = NoPeer
    /\ model = NoModel

NewPromise(op, status, delivered) ==
    [op |-> op, status |-> status, output |-> <<>>, gameEnded |-> FALSE,
     resolverCalls |-> 0, delivered |-> delivered]

\* a slip on lines 81 and 114: the slot is assigned after the engine call
FilledSlot_late(resolver, slot) == slot

\* lines 81 and 114: the resolve function is put into the slot inside the
\* promise executor, before glk.init (95) and before accept (124, 131)
\* are called; `slot` is what the slot held
FilledSlot(resolver, slot) == resolver

(* ------------------------------ start() ------------------------------- *)
\* glk.init(options) is the engine's code: it may invoke glkOte.init
\* (lines 34-53: store the options, schedule the init event) and it may
\* throw.
start(callsInit, throws) ==
    /\ Len(promises) < MaxCalls
    /\ inputResolver' = FilledSlot(Len(promises) + 1, inputResolver)
    /\ isRunning' = TRUE
    /\ glkOptions' = IF callsInit THEN "accept" ELSE glkOptions
    /\ immediates' = IF callsInit THEN immediates + 1 ELSE immediates
    /\ keepAliveTimer' = IF throws THEN "cleared" ELSE "active"
    /\ promises' = Append(promises,
            NewPromise("start", IF throws THEN "rejected" ELSE "pending", FALSE))
    /\ fresh' = <<>>
    /\ awaiting' = TRUE
    /\ UNCHANGED << outputBuffer, currentWindowId, pendingInputType, generation,
                    state, accepted, latestGen, gensOrdered, disposed >>

\* the one start() of a session whose engine boots without error
startOnce == promises = <<>> /\ start(TRUE, FALSE)

\* the setImmediate callback of glkOte.init (36-52)
initImmediate ==
    /\ immediates > 0
    /\ immediates' = immediates - 1
    /\ accepted' = Append(accepted,
            [type |-> "init", window |-> Null, value |-> <<>>, gen |-> 0])
    /\ UNCHANGED << bridgeVars, promises, fresh, latestGen, gensOrdered,
                    awaiting, disposed >>

(* -------------------------- executeCommand() -------------------------- *)
\* a slip on line 123: the command is passed on whole
CharValue_whole(command) == command

\* line 123: command.length > 0 ? command[0] : ' '
CharValue(command) ==
    IF Len(command) > 0 THEN << command[1] >> ELSE << SP >>

\* a slip on line 121: the recorded input mode is not looked at
InputEvent_line(command) ==
    [type |-> "line", window |-> currentWindowId, value |-> command, gen |-> generation]

\* lines 121-137: the event handed to glkOptions.accept
InputEvent(command) ==
    IF pendingInputType = "char"
    THEN [type |-> "char", window |-> currentWindowId,
          value |-> CharValue(command), gen |-> generation]
    ELSE [type |-> "line", window |-> currentWindowId,
          value |-> command, gen |-> generation]

\* line 120
CanDeliver == currentWindowId # Null /\ glkOptions = "accept"

executeCommand(command) ==
    /\ Len(promises) < MaxCalls
    /\ IF ~isRunning
       THEN \* line 104: the async function throws, the promise is rejected
            /\ promises' = Append(promises,
                    NewPromise("executeCommand", "rejected", FALSE))
            /\ UNCHANGED << bridgeVars, immediates, accepted, fresh,
                            latestGen, gensOrdered, awaiting, disposed >>
       ELSE /\ state' = [state EXCEPT
                    !.history = Append(@, [turnNumber |-> state.turnNumber,
                                           command |-> command,
                                           response |-> <<>>]),
                    !.turnNumber = @ + 1]
            /\ inputResolver' = FilledSlot(Len(promises) + 1, inputResolver)
            /\ accepted' = IF CanDeliver
                           THEN Append(accepted, InputEvent(command))
                           ELSE accepted
            /\ promises' = Append(promises,
                    NewPromise("executeCommand", "pending", CanDeliver))
            /\ fresh' = IF CanDeliver THEN <<>> ELSE fresh
            /\ awaiting' = (CanDeliver \/ awaiting)
            /\ UNCHANGED << outputBuffer, isRunning, currentWindowId,
                            pendingInputType, generation, keepAliveTimer,
                            glkOptions, immediates, latestGen, gensOrdered,
                            disposed >>

(* ---------------------------- handleUpdate() -------------------------- *)
\* slips on line 143: the generation only ever grows / data.gen || 0
AdoptGen_max(current, gen) == IF gen # Undefined /\ gen > current THEN gen ELSE current
AdoptGen_orZero(current, gen) == IF gen # Undefined THEN gen ELSE 0

\* line 143
AdoptGen(current, gen) == IF gen # Undefined THEN gen ELSE current

\* a slip on line 188: the slot keeps the resolver
TakenResolver_kept(resolver) == resolver

\* line 188: the slot after the resolver has been taken out of it
TakenResolver(resolver) == Null

\* the engine sends updates once it has been given the init event
EngineStarted == \E i \in 1 .. Len(accepted) : accepted[i].type = "init"

\* calling resolve function r with `output` (189): for executeCommand the
\* closure of lines 114-118, for start the promise's own resolve
ResolvedPromises(r, output, ended) ==
    [promises EXCEPT ![r] =
        [@ EXCEPT !.resolverCalls = @ + 1,
                  !.status = IF @ = "pending" THEN "resolved" ELSE @,
                  !.output = IF promises[r].status = "pending" THEN output ELSE @,
                  !.gameEnded = IF promises[r].status = "pending"
                                   /\ promises[r].op = "executeCommand"
                                THEN ended ELSE @]]

\* a slip on line 116: the placeholder response is left as it is
ResolvedHistory_unfilled(r, output) == state.history

\* lines 115-116: the closure writes the output into the last entry
ResolvedHistory(r, output) ==
    IF promises[r].op = "executeCommand" /\ state.history # <<>>
    THEN [state.history EXCEPT ![Len(state.history)].response = output]
    ELSE state.history

handleUpdate(data) ==
    LET text == ExtractText(data.content)
        buffer == outputBuffer \o text
        k == FindInputReq(data.input, 1)
        ended == state.isEnded \/ data.disable
    IN
    /\ EngineStarted
    /\ Len(buffer) <= MaxBufLen
    /\ generation' = AdoptGen(generation, data.gen)
    /\ IF k # 0
       THEN /\ currentWindowId' = data.input[k].id
            /\ pendingInputType' = data.input[k].type
            /\ IF inputResolver # Null
               THEN /\ outputBuffer' = <<>>
                    /\ inputResolver' = TakenResolver(inputResolver)
                    /\ promises' = ResolvedPromises(inputResolver, Trim(buffer), ended)
                    /\ state' = [state EXCEPT
                            !.isEnded = ended,
                            !.history = ResolvedHistory(inputResolver, Trim(buffer))]
               ELSE /\ outputBuffer' = buffer
                    /\ state' = [state EXCEPT !.isEnded = ended]
                    /\ UNCHANGED << inputResolver, promises >>
       ELSE /\ outputBuffer' = buffer
            /\ state' = [state EXCEPT !.isEnded = ended]
            /\ UNCHANGED << currentWindowId, pendingInputType, inputResolver,
                            promises >>
    /\ fresh' = IF awaiting THEN fresh \o text ELSE fresh
    /\ awaiting' = (awaiting /\ k = 0)
    /\ latestGen' = IF data.gen # Undefined THEN data.gen ELSE latestGen
    /\ gensOrdered' = (gensOrdered /\ (data.gen = Undefined \/ data.gen >= latestGen))
    /\ UNCHANGED << isRunning, keepAliveTimer, glkOptions, immediates,
                    accepted, disposed >>

(* ------------------------------ dispose() ----------------------------- *)
dispose ==
    /\ keepAliveTimer' = IF keepAliveTimer = "null" THEN "null" ELSE "cleared"
    /\ isRunning' = FALSE
    /\ disposed' = TRUE
    /\ UNCHANGED << outputBuffer, inputResolver, currentWindowId,
                    pendingInputType, generation, glkOptions, state,
                    immediates, promises, accepted, fresh, latestGen,
                    gensOrdered, awaiting >>

(* ------------- the bridge called and driven directly ------------------ *)
\* a caller other than a GameSession, and an engine without a script
callStart(callsInit, throws) ==
    start(callsInit, throws) /\ UNCHANGED << session, engine, peer, model >>

callStartOnce == startOnce /\ UNCHANGED << session, engine, peer, model >>

callExecuteCommand(command) ==
    executeCommand(command) /\ UNCHANGED << session, engine, peer, model >>

callDispose == dispose /\ UNCHANGED << session, engine, peer, model >>

\* the event loop runs the callback scheduled by glkOte.init
runImmediate == initImmediate /\ UNCHANGED << session, engine, peer, model >>

\* glkOte.update (54-56)
glkOteUpdate(data) ==
    handleUpdate(data) /\ UNCHANGED << session, engine, peer, model >>

(* ------------------------------- Next --------------------------------- *)
Next ==
    \/ \E callsInit \in BOOLEAN, throws \in BOOLEAN : callStart(callsInit, throws)
    \/ runImmediate
    \/ \E command \in Commands : callExecuteCommand(command)
    \/ \E data \in Events : glkOteUpdate(data)
    \/ callDispose

Spec == Init /\ [][Next]_vars

\* the same program, started once (as GameSession.run does) and driven
\* with rich text
NextText ==
    \/ callStartOnce
    \/ runImmediate
    \/ \E command \in Commands : callExecuteCommand(command)
    \/ \E data \in TextEvents : glkOteUpdate(data)
    \/ callDispose

SpecText == Init /\ [][NextText]_vars

\* the same program, driven with every generation value
NextGen ==
    \/ callStart(TRUE, FALSE)
    \/ runImmediate
    \/ \E command \in Commands : callExecuteCommand(command)
    \/ \E data \in GenEvents : glkOteUpdate(data)
    \/ callDispose

SpecGen == Init /\ [][NextGen]_vars

\* the same program, driven with every input request and command
NextInput ==
    \/ callStart(TRUE, FALSE)
    \/ runImmediate
    \/ \E command \in InputCommands : callExecuteCommand(command)
    \/ \E data \in InputEvents : glkOteUpdate(data)
    \/ callDispose

SpecInput == Init /\ [][NextInput]_vars

(* ------------------------- GameSession.run() -------------------------- *)
\* session.ts 52 and 75
DefaultMaxTurns == 1000

\* line 75: this.config.maxTurns || 1000
TurnLimit(maxTurns) == IF maxTurns # 0 THEN maxTurns ELSE DefaultMaxTurns

\* messages of the errors the collaborators throw (error.message, or
\* String(error) for a value that is no Error)
ErrorMessages == { <<>>, << "e" >> }

\* ifvms-adapter.ts 104: 'Game not running'
NotRunningMessage ==
    << "G", "a", "m", "e", SP, "n", "o", "t", SP, "r", "u", "n", "n", "i", "n", "g" >>

RunCommands == { << "n" >>, << "g", "o" >> }

\* types.ts 103-105: { ...this.state } copies turnNumber and isEnded and
\* the reference to the history array, not the array
HistoryRef == "this.state.history"
GetState ==
    [turnNumber |-> state.turnNumber, isEnded |-> state.isEnded,
     history |-> HistoryRef]

\* the array a history reference denotes now
Deref(ref) == IF ref = HistoryRef THEN state.history ELSE <<>>

\* everything but the session
worldVars == << bridgeVars, immediates, promises, accepted, fresh, latestGen,
                gensOrdered, awaiting, disposed, engine, peer, model >>

\* lines 126-133: the catch block is entered with the error of `call`
Caught(call, msg) ==
    [session EXCEPT !.pc = "catch", !.error = msg,
                    !.failedCall = call, !.failedTurn = session.turnNumber]

\* a call that is not awaited: run() goes on at once
Settled_notAwaited(p) == TRUE

\* `await`: run() goes on when the promise has been resolved or rejected
Settled(p) == p.status # "pending"

\* BaseAgent (agent.ts 81-97)
observe(agent, command) ==
    [agent EXCEPT !.turnCount = @ + 1, !.commandHistory = Append(@, command)]

reset(agent) == [agent EXCEPT !.turnCount = 0, !.commandHistory = <<>>]

getMetrics(agent) ==
    [totalTurns |-> agent.turnCount, success |-> FALSE,
     uniqueCommands |->
        Cardinality({ agent.commandHistory[i] : i \in 1 .. Len(agent.commandHistory) })]

\* line 67: await this.game.start()
runStart(callsInit, throws) ==
    /\ session.pc = "start"
    /\ start(callsInit, throws)
    /\ session' = [session EXCEPT !.pc = "awaitStart", !.promise = Len(promises) + 1]
    /\ UNCHANGED << engine, peer, model >>

\* lines 67-71: start() has settled; agent.initialize(initialOutput) is called
startSettled(msg) ==
    /\ session.pc = "awaitStart"
    /\ Settled(promises[session.promise])
    /\ session' = IF promises[session.promise].status = "resolved"
                  THEN [session EXCEPT !.pc = "initialize"]
                  ELSE Caught("start", msg)
    /\ UNCHANGED worldVars

\* line 71: agent.initialize returns or throws
agentInitialize(throws, msg) ==
    /\ session.pc = "initialize"
    /\ session' = IF throws THEN Caught("initialize", msg)
                  ELSE [session EXCEPT !.pc = "loop", !.agent = reset(@)]
    /\ UNCHANGED worldVars

\* line 77: if (state.isEnded) break
EndedAtTop_ignored(snapshot) == FALSE
EndedAtTop(snapshot) == snapshot.isEnded

\* lines 75-82: the loop condition, getState(), the ended check,
\* turnNumber++, and the call of agent.act(state)
loopHead ==
    /\ session.pc = "loop"
    /\ session' =
         IF session.turnNumber < TurnLimit(session.maxTurns)
         THEN IF EndedAtTop(GetState)
              THEN [session EXCEPT !.pc = "metrics", !.endSeen = TRUE]
              ELSE [session EXCEPT
                      !.pc = "act",
                      !.turnNumber = @ + 1,
                      !.endSeen = @ \/ state.isEnded,
                      !.handed = Append(@, [state |-> GetState,
                                            historyThen |-> state.history])]
         ELSE [session EXCEPT !.pc = "metrics"]
    /\ UNCHANGED worldVars

\* lines 82-92: agent.act throws, or returns a command that is handed to
\* game.executeCommand
agentAct(throws, msg, command) ==
    /\ session.pc = "act"
    /\ IF throws
       THEN /\ session' = Caught("act", msg)
            /\ UNCHANGED worldVars
       ELSE /\ executeCommand(command)
            /\ session' = [session EXCEPT !.pc = "awaitExec",
                                          !.command = command,
                                          !.promise = Len(promises) + 1]
            /\ UNCHANGED << engine, peer, model >>

\* a slip on line 98: the turn echoes the command as its response
GameTurn_echo(turnNumber, command, output) ==
    [turnNumber |-> turnNumber, command |-> command, response |-> command]

\* lines 95-100: the turn run() records (its timestamp is left out)
GameTurn(turnNumber, command, output) ==
    [turnNumber |-> turnNumber, command |-> command, response |-> output]

\* lines 92-105: executeCommand has settled; the turn is recorded and
\* agent.observe is called
execSettled ==
    LET p == promises[session.promise] IN
    /\ session.pc = "awaitExec"
    /\ Settled(p)
    /\ session' =
         IF p.status = "resolved"
         THEN [session EXCEPT
                 !.pc = "observe",
                 !.gameEnded = p.gameEnded,
                 !.endSeen = @ \/ p.gameEnded,
                 !.history = Append(@, GameTurn(session.turnNumber,
                                                session.command, p.output))]
         ELSE Caught("executeCommand", NotRunningMessage)
    /\ UNCHANGED worldVars

\* lines 105-114: agent.observe returns or throws; if (result.gameEnded) break
agentObserve(throws, msg) ==
    /\ session.pc = "observe"
    /\ session' =
         IF throws
         THEN [Caught("observe", msg) EXCEPT !.observeFailures = @ + 1]
         ELSE [session EXCEPT
                 !.pc = IF session.gameEnded THEN "metrics" ELSE "loop",
                 !.agent = observe(@, session.command)]
    /\ UNCHANGED worldVars

\* lines 118-125: agent.getMetrics after the loop; the result of success
agentGetMetrics(throws, msg) ==
    /\ session.pc = "metrics"
    /\ session' =
         IF throws THEN Caught("getMetrics", msg)
         ELSE [session EXCEPT
                 !.pc = "done",
                 !.result = << [success |-> TRUE, turns |-> session.turnNumber,
                                history |-> session.history,
                                metrics |-> getMetrics(session.agent),
                                hasError |-> FALSE, error |-> <<>>] >>]
    /\ UNCHANGED worldVars

\* a slip on line 129: the loop counter is reported, as on line 122
FailureTurns_counter(turnNumber, history) == turnNumber

\* line 129: turns: this.history.length
FailureTurns(turnNumber, history) == Len(history)

\* lines 126-133: agent.getMetrics inside the catch block; when it throws
\* the promise of run() is rejected
catchGetMetrics(throws) ==
    /\ session.pc = "catch"
    /\ session' =
         IF throws THEN [session EXCEPT !.pc = "rejected"]
         ELSE [session EXCEPT
                 !.pc = "done",
                 !.result = << [success |-> FALSE,
                                turns |-> FailureTurns(session.turnNumber,
                                                       session.history),
                                history |-> session.history,
                                metrics |-> getMetrics(session.agent),
                                hasError |-> TRUE, error |-> session.error] >>]
    /\ UNCHANGED worldVars

(* --------------------------- a scripted engine ------------------------ *)
\* The engine raises engine.script input requests, each in answer to an
\* accepted event (the init event, then one per command), and then
\* signals termination: with its last request, in answer to the next
\* command, or on its own.
Owed ==
    /\ ~ engine.terminated
    /\ Len(accepted) > engine.script - engine.left

RunTexts == [gen : {Undefined}, disable : {FALSE}, content : {ContentA},
             input : {InputNone}]
RunRequests == [gen : {Undefined}, disable : BOOLEAN,
                content : {ContentNone, ContentB}, input : {InputLine}]
RunTermination == [gen |-> Undefined, disable |-> TRUE, content |-> ContentNone,
                   input |-> InputNone]

engineText(data) ==
    /\ Owed
    /\ handleUpdate(data)
    /\ UNCHANGED << session, engine, peer, model >>

engineRequest(data) ==
    /\ Owed
    /\ engine.left > 0
    /\ data.disable => engine.left = 1
    /\ handleUpdate(data)
    /\ engine' = [engine EXCEPT !.left = @ - 1, !.terminated = data.disable]
    /\ UNCHANGED << session, peer, model >>

engineTerminate ==
    /\ ~ engine.terminated
    /\ engine.left = 0
    /\ handleUpdate(RunTermination)
    /\ engine' = [engine EXCEPT !.terminated = TRUE]
    /\ UNCHANGED << session, peer, model >>

InitRun ==
    /\ BridgeInit
    /\ session \in { [NoSession EXCEPT !.pc = "start", !.maxTurns = m] :
                        m \in 0 .. MaxTurnsConfig }
    /\ engine \in { [NoEngine EXCEPT !.script = n, !.left = n] :
                        n \in 0 .. MaxScript }
    /\ peer = NoPeer
    /\ model = NoModel

NextRun ==
    \/ \E callsInit \in BOOLEAN, throws \in BOOLEAN : runStart(callsInit, throws)
    \/ runImmediate
    \/ \E msg \in ErrorMessages : startSettled(msg)
    \/ \E throws \in BOOLEAN, msg \in ErrorMessages : agentInitialize(throws, msg)
    \/ loopHead
    \/ \E throws \in BOOLEAN, msg \in ErrorMessages, command \in RunCommands :
            agentAct(throws, msg, command)
    \/ execSettled
    \/ \E throws \in BOOLEAN, msg \in ErrorMessages : agentObserve(throws, msg)
    \/ \E throws \in BOOLEAN, msg \in ErrorMessages : agentGetMetrics(throws, msg)
    \/ \E throws \in BOOLEAN : catchGetMetrics(throws)
    \/ \E data \in RunTexts : engineText(data)
    \/ \E data \in RunRequests : engineRequest(data)
    \/ engineTerminate
    \/ callDispose

\* one GameSession on one bridge with a scripted engine
SpecRun == InitRun /\ [][NextRun]_vars

(* ------------------- a session with a BaseAgent ----------------------- *)
\* The agent is new, or has played a session of one turn before; its
\* initialize calls reset and returns, and observe and getMetrics are
\* BaseAgent's, which do not throw.  start(), act() and executeCommand()
\* may fail.
InitAgent ==
    /\ BridgeInit
    /\ session \in { [NoSession EXCEPT !.pc = "start", !.maxTurns = m, !.agent = a] :
                        m \in 1 .. MaxTurnsConfig,
                        a \in { NoSession.agent, observe(NoSession.agent, << "n" >>) } }
    /\ engine \in { [NoEngine EXCEPT !.script = n, !.left = n] : n \in 1 .. MaxScript }
    /\ peer = NoPeer
    /\ model = NoModel

NextAgent ==
    \/ \E callsInit \in BOOLEAN, throws \in BOOLEAN : runStart(callsInit, throws)
    \/ runImmediate
    \/ startSettled(<< "e" >>)
    \/ agentInitialize(FALSE, <<>>)
    \/ loopHead
    \/ \E throws \in BOOLEAN, command \in RunCommands : agentAct(throws, << "e" >>, command)
    \/ execSettled
    \/ agentObserve(FALSE, <<>>)
    \/ agentGetMetrics(FALSE, <<>>)
    \/ catchGetMetrics(FALSE)
    \/ \E data \in RunRequests : engineRequest(data)
    \/ engineTerminate
    \/ callDispose

SpecAgent == InitAgent /\ [][NextAgent]_vars

(* ------------------------ the engine's error callback ----------------- *)
\* glkOte.error (59-61) writes the message to the console and touches no
\* field of the bridge; an engine that has reported a fatal error sends
\* no further update
glkOteError ==
    /\ promises # <<>>
    /\ ~ engine.failed
    /\ engine' = [engine EXCEPT !.failed = TRUE]
    /\ UNCHANGED << bridgeVars, immediates, promises, accepted, fresh, latestGen,
                    gensOrdered, awaiting, disposed, session, peer, model >>

\* the one start() of a bridge, whose engine may throw from glk.init
bootStart(callsInit, throws) ==
    /\ promises = <<>>
    /\ start(callsInit, throws)
    /\ UNCHANGED << session, engine, peer, model >>

bootUpdate(data) ==
    /\ ~ engine.failed
    /\ handleUpdate(data)
    /\ UNCHANGED << session, engine, peer, model >>

NextBoot ==
    \/ \E callsInit \in BOOLEAN, throws \in BOOLEAN : bootStart(callsInit, throws)
    \/ runImmediate
    \/ \E data \in Events : bootUpdate(data)
    \/ glkOteError
    \/ callDispose

\* a bridge being booted, its caller waiting for start(); the engine may
\* fail at any moment
SpecBoot == Init /\ [][NextBoot]_vars

\* the event loop runs what is ready to run
SpecBootFair == SpecBoot /\ WF_vars(NextBoot)

(* --------------------------- two bridges ------------------------------ *)
\* The variables of the bridge describe the bridge that is being called or
\* sent an event; peer.bridge is the other one.
ActiveId == IF peer.bridge.id = "A" THEN "B" ELSE "A"

ActiveBridge ==
    [id |-> ActiveId, outputBuffer |-> outputBuffer, inputResolver |-> inputResolver,
     isRunning |-> isRunning, currentWindowId |-> currentWindowId,
     pendingInputType |-> pendingInputType, generation |-> generation,
     keepAliveTimer |-> keepAliveTimer, glkOptions |-> glkOptions, state |-> state,
     immediates |-> immediates, promises |-> promises, accepted |-> accepted,
     fresh |-> fresh, latestGen |-> latestGen, gensOrdered |-> gensOrdered,
     awaiting |-> awaiting, disposed |-> disposed]

\* a slip in types.ts 93: one state object for all instances (static)
OwnState_shared(own, current) == current

\* types.ts 93-97: the field initialiser builds a state object, and a
\* history array, for each instance; `own` is the one of the bridge that
\* is turned to, `current` the one of the bridge that was at work
OwnState(own, current) == own

\* the next call or event is for the other bridge
switchBridge ==
    LET b == peer.bridge IN
    /\ peer' = [peer EXCEPT !.bridge = ActiveBridge]
    /\ outputBuffer' = b.outputBuffer
    /\ inputResolver' = b.inputResolver
    /\ isRunning' = b.isRunning
    /\ currentWindowId' = b.currentWindowId
    /\ pendingInputType' = b.pendingInputType
    /\ generation' = b.generation
    /\ keepAliveTimer' = b.keepAliveTimer
    /\ glkOptions' = b.glkOptions
    /\ state' = OwnState(b.state, state)
    /\ immediates' = b.immediates
    /\ promises' = b.promises
    /\ accepted' = b.accepted
    /\ fresh' = b.fresh
    /\ latestGen' = b.latestGen
    /\ gensOrdered' = b.gensOrdered
    /\ awaiting' = b.awaiting
    /\ disposed' = b.disposed
    /\ UNCHANGED << session, engine, model >>

\* what each bridge is given: its own command, text, request and generation
BridgeCommand(id) == IF id = "A" THEN << "a" >> ELSE << "b" >>
BridgeText(id) == IF id = "A" THEN ContentA ELSE ContentB
BridgeInput(id) == IF id = "A" THEN InputLine ELSE InputChar
BridgeGen(id) == IF id = "A" THEN MaxGen - 1 ELSE MaxGen
BridgeEvents(id) ==
    [gen : {BridgeGen(id)}, disable : {FALSE},
     content : {ContentNone, BridgeText(id)}, input : {InputNone, BridgeInput(id)}]

\* one command for each bridge
twoExecute ==
    /\ state.history = <<>>
    /\ callExecuteCommand(BridgeCommand(ActiveId))

\* the engine of a bridge sends its events to the glkOte of that bridge
twoUpdate(data) ==
    /\ data \in BridgeEvents(ActiveId)
    /\ glkOteUpdate(data)

NextTwo ==
    \/ callStartOnce
    \/ runImmediate
    \/ twoExecute
    \/ \E data \in BridgeEvents("A") \cup BridgeEvents("B") : twoUpdate(data)
    \/ switchBridge

\* two bridges, constructed independently, called and sent events in any
\* interleaving
SpecTwo == Init /\ [][NextTwo]_vars

(* ----------------- sessions in parallel on one game -------------------- *)
\* architecture.md 342-350: Promise.all(agents.map(agent =>
\* new GameSession(game, agent).run())).  `session` is the run() that
\* takes the next step, peer.session the other one; both call the same
\* bridge.
switchSession ==
    /\ peer' = [peer EXCEPT !.session = session]
    /\ session' = peer.session
    /\ UNCHANGED << bridgeVars, immediates, promises, accepted, fresh, latestGen,
                    gensOrdered, awaiting, disposed, engine, model >>

InitParallel ==
    /\ BridgeInit
    /\ \E m \in 1 .. MaxTurnsConfig :
         /\ session = [NoSession EXCEPT !.pc = "start", !.maxTurns = m]
         /\ peer = [NoPeer EXCEPT !.session = session]
    /\ model = NoModel
    /\ engine \in { [NoEngine EXCEPT !.script = n, !.left = n] :
                        n \in 1 .. MaxScript }

\* no collaborator throws and the game is not disposed of
NextParallel ==
    \/ runStart(TRUE, FALSE)
    \/ runImmediate
    \/ startSettled(<<>>)
    \/ agentInitialize(FALSE, <<>>)
    \/ loopHead
    \/ \E command \in RunCommands : agentAct(FALSE, <<>>, command)
    \/ execSettled
    \/ agentObserve(FALSE, <<>>)
    \/ agentGetMetrics(FALSE, <<>>)
    \/ \E data \in RunRequests : engineRequest(data)
    \/ engineTerminate
    \/ switchSession

SpecParallel == InitParallel /\ [][NextParallel]_vars

(* ------------------ an engine that answers at once -------------------- *)
\* The engine runs only inside a call of options.accept: engine.inCall
\* tells that such a call is on the stack.  What it sends while the call
\* is on the stack reaches handleUpdate before accept returns.
\* 36-52: the callback hands the init event to accept
syncImmediate ==
    /\ engine.inCall = "none"
    /\ initImmediate
    /\ engine' = [engine EXCEPT !.inCall = "accept"]
    /\ UNCHANGED << session, peer, model >>

\* 103-139, up to the call of accept (124, 131); the caller has awaited
\* its earlier calls (session.ts 67, 92)
syncExecute(command) ==
    /\ engine.inCall = "none"
    /\ \A i \in 1 .. Len(promises) : promises[i].status # "pending"
    /\ executeCommand(command)
    /\ engine' = [engine EXCEPT !.inCall = IF CanDeliver THEN "accept" ELSE "none"]
    /\ UNCHANGED << session, peer, model >>

\* 54-56: glkOte.update called by the engine from inside accept
syncUpdate(data) ==
    /\ engine.inCall = "accept"
    /\ handleUpdate(data)
    /\ UNCHANGED << session, engine, peer, model >>

\* accept returns to the callback (52) or to the promise executor (138)
syncReturn ==
    /\ engine.inCall = "accept"
    /\ engine' = [engine EXCEPT !.inCall = "none"]
    /\ UNCHANGED << bridgeVars, immediates, promises, accepted, fresh, latestGen,
                    gensOrdered, awaiting, disposed, session, peer, model >>

NextSync ==
    \/ callStartOnce
    \/ syncImmediate
    \/ \E command \in Commands : syncExecute(command)
    \/ \E data \in TextEvents : syncUpdate(data)
    \/ syncReturn

\* the bridge with an engine that sends every update from inside accept
SpecSync == Init /\ [][NextSync]_vars

(* ------------------- update events of any shape ----------------------- *)
\* An event also says what kind of value its content and input fields are:
\* a list, a (non-zero) number or a (non-empty) string.
Listed(data) ==
    [gen |-> data.gen, disable |-> data.disable,
     content |-> IF data.contentKind = "list" THEN data.content ELSE <<>>,
     input |-> IF data.inputKind = "list" THEN data.input ELSE <<>>]

\* 155 and 169: typeof null is 'object', so part.text is read from null
PartsThrow(parts) == \E k \in 1 .. Len(parts) : parts[k].isNull

\* 150 and 167: line.content is read from null; else a part may throw
LineThrows(line) == line.isNull \/ (line.hasContent /\ PartsThrow(line.content))

\* 148: content.text is read from null; else a line may throw
BlockThrows(block) ==
    \/ block.isNull
    \/ block.hasText /\ \E k \in 1 .. Len(block.text) : LineThrows(block.text[k])
    \/ ~ block.hasText /\ block.hasLines
           /\ \E k \in 1 .. Len(block.lines) : LineThrows(block.lines[k])

\* 147: for...of over a number throws, over a string it visits its
\* characters, which have neither text nor lines
ContentThrows(data) ==
    \/ data.contentKind = "number"
    \/ data.contentKind = "list"
           /\ \E k \in 1 .. Len(data.content) : BlockThrows(data.content[k])

\* 178-179: a string has a length but no find; find reads i.type from
\* every entry up to the first line or char request
InputThrows(data) ==
    \/ data.inputKind = "string"
    \/ data.inputKind = "list"
           /\ \E k \in 1 .. Len(data.input) :
                /\ data.input[k].isNull
                /\ \A j \in 1 .. (k - 1) : data.input[j].type \notin {"line", "char"}

UpdateThrows(data) == ContentThrows(data) \/ InputThrows(data)

\* the text appended before the exception leaves the loops of 147-175
RECURSIVE TextPartsUntil(_, _)
TextPartsUntil(parts, k) ==
    IF k > Len(parts) \/ parts[k].isNull THEN <<>>
    ELSE TextPart(parts[k], k) \o TextPartsUntil(parts, k + 1)

RECURSIVE GridPartsUntil(_)
GridPartsUntil(parts) ==
    IF parts = <<>> \/ Head(parts).isNull THEN <<>>
    ELSE GridPart(Head(parts)) \o GridPartsUntil(Tail(parts))

RECURSIVE TextLinesUntil(_)
TextLinesUntil(ls) ==
    IF ls = <<>> \/ Head(ls).isNull THEN <<>>
    ELSE IF LineThrows(Head(ls)) THEN TextPartsUntil(Head(ls).content, 1)
    ELSE TextLine(Head(ls)) \o TextLinesUntil(Tail(ls))

RECURSIVE GridLinesUntil(_)
GridLinesUntil(ls) ==
    IF ls = <<>> \/ Head(ls).isNull THEN <<>>
    ELSE IF LineThrows(Head(ls)) THEN GridPartsUntil(Head(ls).content)
    ELSE GridLine(Head(ls)) \o GridLinesUntil(Tail(ls))

RECURSIVE ContentUntil(_)
ContentUntil(content) ==
    IF content = <<>> \/ Head(content).isNull THEN <<>>
    ELSE IF BlockThrows(Head(content))
         THEN IF Head(content).hasText THEN TextLinesUntil(Head(content).text)
              ELSE GridLinesUntil(Head(content).lines)
    ELSE BlockText(Head(content)) \o ContentUntil(Tail(content))

\* what handleUpdate has appended when it returns or throws
AppendedText(data) ==
    IF ContentThrows(data) THEN ContentUntil(Listed(data).content)
    ELSE ExtractText(Listed(data).content)

\* glkOte.update with an event of any shape: handleUpdate returns, or it
\* throws into the engine, keeping what it had assigned up to there
rawUpdate(data) ==
    IF UpdateThrows(data)
    THEN /\ EngineStarted
         /\ Len(outputBuffer \o AppendedText(data)) <= MaxBufLen
         /\ generation' = AdoptGen(generation, data.gen)
         /\ state' = [state EXCEPT !.isEnded = @ \/ data.disable]
         /\ outputBuffer' = outputBuffer \o AppendedText(data)
         /\ fresh' = IF awaiting THEN fresh \o AppendedText(data) ELSE fresh
         /\ latestGen' = IF data.gen # Undefined THEN data.gen ELSE latestGen
         /\ gensOrdered' = (gensOrdered /\ (data.gen = Undefined \/ data.gen >= latestGen))
         /\ engine' = [engine EXCEPT !.threw = TRUE]
         /\ UNCHANGED << inputResolver, isRunning, currentWindowId, pendingInputType,
                         keepAliveTimer, glkOptions, immediates, promises, accepted,
                         awaiting, disposed, session, peer, model >>
    ELSE /\ handleUpdate(Listed(data))
         /\ UNCHANGED << session, engine, peer, model >>

MalformedEvents ==
    LET \* buffer window with a null line entry after a line "a"
        ContentNullLine ==
            << TextBlock(<< ContentLine(<< StrPart(<<"s">>), StrPart(<<"a">>) >>),
                            NullLine >>) >>
        \* grid window whose line has a null part after "b"
        ContentNullPart == << GridBlock(<< ContentLine(<< ObjPart(<<"b">>), NullPart >>) >>) >>
        \* a null content block
        ContentNullBlock == << NullBlock >>
        \* a null entry before, and after, the line request
        InputNullLine == << NullRequest, InputLine[1] >>
        InputLineNull == << InputLine[1], NullRequest >>
    IN
    { data \in [gen : {Undefined}, disable : {FALSE},
                content : {ContentNone, ContentA, ContentNullLine, ContentNullPart,
                           ContentNullBlock},
                input : {InputNone, InputLine, InputNullLine, InputLineNull},
                contentKind : {"list", "number", "string"},
                inputKind : {"list", "number", "string"}] :
        /\ data.contentKind # "list" => data.content = ContentNone
        /\ data.inputKind # "list" => data.input = InputNone }

NextMalformed ==
    \/ callStartOnce
    \/ runImmediate
    \/ \E command \in Commands : callExecuteCommand(command)
    \/ \E data \in MalformedEvents : rawUpdate(data)

\* the bridge with an engine whose events are not all well formed
SpecMalformed == Init /\ [][NextMalformed]_vars

(* ---------------- a language model's generateAction ------------------- *)
\* models/src/chat.ts: ChatModel (61-228, Chat Completions API, "chat")
\* and OpenAIModel (276-388, Responses API, "responses")
MaxToolLoops == 5

\* rounds of tool calls the language model asks for at most
MaxRounds == 6

\* tool calls one response asks for at most
MaxToolCalls == 2

\* the text of a response: none, or a command
ResponseTexts == { <<>>, << "n" >> }

everythingButModel ==
    << bridgeVars, immediates, promises, accepted, fresh, latestGen, gensOrdered,
       awaiting, disposed, session, engine, peer >>

\* 134 / 311: the first request is sent
generateAction(api, hasHandler) ==
    /\ model.pc = "idle"
    /\ model' = [NoModel EXCEPT !.pc = "awaitResponse", !.api = api,
                                !.hasHandler = hasHandler]
    /\ UNCHANGED everythingButModel

\* 140-145 / 317-323: the condition of the tool loop
LoopAgain(loops, toolCalls, hasHandler) ==
    loops < MaxToolLoops /\ toolCalls > 0 /\ hasHandler

\* 192-226 / 348-384: the action is built from the response at hand
Finished(m) ==
    [m EXCEPT !.pc = "done",
              !.result = << [command |-> Trim(m.text), toolCalls |-> m.toolCalls] >>]

\* the language model answers with `toolCalls` tool calls and a text; the
\* loop is entered (146 / 324-325) or left
modelResponds(toolCalls, text) ==
    /\ model.pc = "awaitResponse"
    /\ toolCalls > 0 => model.rounds < MaxRounds
    /\ LET m == [model EXCEPT !.toolCalls = toolCalls, !.text = text,
                              !.rounds = IF toolCalls > 0 THEN @ + 1 ELSE @]
       IN model' = IF LoopAgain(model.loops, toolCalls, model.hasHandler)
                   THEN [m EXCEPT !.pc = "tool", !.loops = @ + 1,
                                  !.pendingTools = toolCalls, !.outputs = 0]
                   ELSE Finished(m)
    /\ UNCHANGED everythingButModel

\* 171-185 / 329-345: onToolCall returns a result or nothing; after the
\* last tool call of the round the model is asked again, except that
\* OpenAIModel leaves the loop when no call has given a result
toolReturns(hasResult) ==
    /\ model.pc = "tool"
    /\ LET m == [model EXCEPT !.pendingTools = @ - 1,
                              !.outputs = IF hasResult THEN @ + 1 ELSE @,
                              !.answered = @ /\ hasResult]
       IN model' = IF m.pendingTools > 0 THEN m
                   ELSE IF m.api = "responses" /\ m.outputs = 0 THEN Finished(m)
                   ELSE [m EXCEPT !.pc = "awaitResponse"]
    /\ UNCHANGED everythingButModel

NextModel ==
    \/ \E api \in {"chat", "responses"}, hasHandler \in BOOLEAN :
            generateAction(api, hasHandler)
    \/ \E toolCalls \in 0 .. MaxToolCalls, text \in ResponseTexts : modelResponds(toolCalls, text)
    \/ \E hasResult \in BOOLEAN : toolReturns(hasResult)

\* one call of generateAction
SpecModel == Init /\ [][NextModel]_vars

(* ----------------------- act() of the agents ------------------------- *)
\* agents/src: PromptCacheAgent.act (prompt-cache.ts 74-101), GoalsAgent.act
\* (goals.ts 117-190) and OpenAIAgent.act (openai.ts 79-148).  An action
\* is a command and the confidence of its reasoning (0 or 1).
\* a slip in the catch block: the error is thrown again, as generateAction
\* does (chat.ts 224-227)
ActOutcome_rethrown(threw, action) ==
    IF threw THEN [pc |-> "rejected", result |-> <<>>]
    ELSE [pc |-> "resolved", result |-> << action >>]

\* try { return <action> } catch (error) { return <fallback> }
\* (prompt-cache.ts 89-100, goals.ts 172-189, openai.ts 91-147)
ActOutcome(threw, action) ==
    IF threw
    THEN [pc |-> "resolved",
          result |-> << [command |-> << "l", "o", "o", "k" >>, confidence |-> 0] >>]
    ELSE [pc |-> "resolved", result |-> << action >>]

\* the promise of act() is settled
Settle(threw, action) ==
    [model EXCEPT !.act = [@ EXCEPT !.pc = ActOutcome(threw, action).pc,
                                    !.threw = threw,
                                    !.result = ActOutcome(threw, action).result]]

\* act(state) builds its prompt and enters the try block: PromptCacheAgent
\* and GoalsAgent call generateAction of their model (GoalsAgent with a
\* tool handler), OpenAIAgent calls responses.create itself
act(agent, api) ==
    /\ model.act.pc = "idle"
    /\ model' = [NoModel EXCEPT
                    !.pc = IF agent = "OpenAIAgent" THEN "idle" ELSE "awaitResponse",
                    !.api = api,
                    !.hasHandler = (agent = "GoalsAgent"),
                    !.act = [@ EXCEPT !.pc = "try", !.agent = agent]]
    /\ UNCHANGED everythingButModel

\* generateAction rejects (a request fails, the response has no choices:
\* chat.ts 224-227, 385-388) or resolves with its action (212-223, 372-384)
generateSettles(rejected) ==
    /\ model.act.pc = "try"
    /\ model.act.agent # "OpenAIAgent"
    /\ IF rejected THEN model.pc \in {"awaitResponse", "tool"} ELSE model.pc = "done"
    /\ model' = Settle(rejected, [command |-> model.result[1].command, confidence |-> 1])
    /\ UNCHANGED everythingButModel

\* openai.ts 99-135: responses.create rejects, or resolves with no text,
\* with text that is not JSON, or with the JSON of an action
createSettles(outcome, command, confidence) ==
    /\ model.act.pc = "try"
    /\ model.act.agent = "OpenAIAgent"
    /\ model' = Settle(outcome # "json", [command |-> command, confidence |-> confidence])
    /\ UNCHANGED everythingButModel

NextAct ==
    \/ \E agent \in {"PromptCacheAgent", "GoalsAgent", "OpenAIAgent"},
          api \in {"chat", "responses"} : act(agent, api)
    \/ \E toolCalls \in 0 .. MaxToolCalls, text \in ResponseTexts : modelResponds(toolCalls, text)
    \/ \E hasResult \in BOOLEAN : toolReturns(hasResult)
    \/ \E rejected \in BOOLEAN : generateSettles(rejected)
    \/ \E outcome \in {"rejected", "empty", "notJson", "json"},
          command \in ResponseTexts, confidence \in {0, 1} :
            createSettles(outcome, command, confidence)

\* one call of act
SpecAct == Init /\ [][NextAct]_vars

(* ------------------ GoalsAgent: the goals document -------------------- *)
\* String.prototype.startsWith and includes
StartsWith(s, prefix) ==
    Len(s) >= Len(prefix) /\ SubSeq(s, 1, Len(prefix)) = prefix

Includes(s, part) ==
    \E i \in 1 .. (Len(s) - Len(part) + 1) : SubSeq(s, i, i + Len(part) - 1) = part

\* s.split('\n') and lines.join('\n')
RECURSIVE Split(_)
Split(s) ==
    IF \A i \in 1 .. Len(s) : s[i] # NL THEN << s >>
    ELSE LET k == CHOOSE i \in 1 .. Len(s) :
                    s[i] = NL /\ \A j \in 1 .. (i - 1) : s[j] # NL
         IN << SubSeq(s, 1, k - 1) >> \o Split(SubSeq(s, k + 1, Len(s)))

RECURSIVE Join(_)
Join(ls) ==
    IF ls = <<>> THEN <<>>
    ELSE IF Len(ls) = 1 THEN ls[1]
    ELSE ls[1] \o << NL >> \o Join(Tail(ls))

\* result.push of the lines from..to of the document (82, 92, 99, 103, 110)
Pushed(lines, from, to) ==
    [k \in 1 .. (to - from + 1) |-> [text |-> lines[from + k - 1], inserted |-> FALSE]]

\* 81-84 and 98-101: the position (from 1) of the first line at or after
\* `cur` whose trimmed text is `target`; Len(lines) + 1 when there is none
RECURSIVE Scan(_, _, _)
Scan(lines, cur, target) ==
    IF cur > Len(lines) \/ Trim(lines[cur]) = target THEN cur
    ELSE Scan(lines, cur + 1, target)

\* a slip on line 103: the line that matches the context is not pushed
ContextPushed_unmatched(lines, cur, k) == Pushed(lines, cur, k - 1)

\* 98-105: the lines skipped over and the line that matches the context
ContextPushed(lines, cur, k) ==
    Pushed(lines, cur, IF k <= Len(lines) THEN k ELSE Len(lines))

\* 73-112: the loop over the diff lines from position i on, and the
\* lines left over; each pushed line is marked as inserted ('+') or not
RECURSIVE PatchLoop(_, _, _, _)
PatchLoop(lines, diffLines, i, cur) ==
    IF i > Len(diffLines) THEN Pushed(lines, cur, Len(lines))
    ELSE LET line == diffLines[i] IN
         IF StartsWith(line, << "@", "@" >>) THEN PatchLoop(lines, diffLines, i + 1, cur)
         ELSE IF StartsWith(line, << "+" >>)
         THEN << [text |-> Tail(line), inserted |-> TRUE] >>
                  \o PatchLoop(lines, diffLines, i + 1, cur)
         ELSE IF StartsWith(line, << "-" >>)
         THEN LET k == Scan(lines, cur, Trim(Tail(line))) IN
              Pushed(lines, cur, k - 1)
                  \o PatchLoop(lines, diffLines, i + 1, IF k <= Len(lines) THEN k + 1 ELSE k)
         ELSE LET context == IF StartsWith(line, << SP >>) THEN Trim(Tail(line))
                             ELSE Trim(line)
              IN IF context = <<>>
                 THEN IF cur <= Len(lines) /\ Trim(lines[cur]) = <<>>
                      THEN Pushed(lines, cur, cur)
                               \o PatchLoop(lines, diffLines, i + 1, cur + 1)
                      ELSE PatchLoop(lines, diffLines, i + 1, cur)
                 ELSE LET k == Scan(lines, cur, context) IN
                      ContextPushed(lines, cur, k)
                          \o PatchLoop(lines, diffLines, i + 1,
                                       IF k <= Len(lines) THEN k + 1 ELSE k)

\* 67-70: the position after the leading header lines
RECURSIVE SkipHeader(_, _)
SkipHeader(diffLines, i) ==
    IF /\ i <= Len(diffLines)
       /\ \/ StartsWith(diffLines[i], << "-", "-", "-" >>)
          \/ StartsWith(diffLines[i], << "+", "+", "+" >>)
          \/ StartsWith(diffLines[i], << "I", "n", "d", "e", "x", ":" >>)
    THEN SkipHeader(diffLines, i + 1)
    ELSE i

\* 58-115: what is pushed to `result`; a text without '@@', '\n+' and
\* '\n-' is no diff and is returned as it is (59-61)
applyPatchResiliently(current, diffText) ==
    IF /\ ~ Includes(diffText, << "@", "@" >>)
       /\ ~ Includes(diffText, << NL, "+" >>)
       /\ ~ Includes(diffText, << NL, "-" >>)
    THEN [k \in 1 .. Len(Split(diffText)) |->
                [text |-> Split(diffText)[k], inserted |-> TRUE]]
    ELSE PatchLoop(Split(current), Split(diffText),
                   SkipHeader(Split(diffText), 1), 1)

\* goals.ts 142-170: the tool handler is given an apply_patch call for
\* goals.md, with a diff (147-148) or with a whole content (149-150)
handleToolCall(hasDiff) ==
    LET g == model.goals
        pushed == applyPatchResiliently(g.goalsMarkdown, g.diff)
    IN
    /\ ~ g.patched
    /\ model' = [model EXCEPT !.goals =
            IF hasDiff
            THEN [g EXCEPT !.patched = TRUE, !.pushed = pushed,
                           !.before = g.goalsMarkdown,
                           !.goalsMarkdown = Join([k \in 1 .. Len(pushed) |-> pushed[k].text])]
            ELSE [g EXCEPT !.goalsMarkdown = g.diff]]
    /\ UNCHANGED everythingButModel

\* documents and diffs, line by line: a line 'a', the same line indented,
\* an empty line; a hunk marker, an insertion, two removals, three context
\* lines and a header
InitPatch ==
    LET DocLines == { << "a" >>, << SP, "a" >>, <<>> }
        DiffLines == { << "@", "@" >>, << "+", "b" >>, << "-", "a" >>, << "-" >>,
                       << SP, "a" >>, << "b" >>, <<>>, << "-", "-", "-" >> }
        Lists(S, n) == UNION { [1 .. m -> S] : m \in 1 .. n }
    IN
    /\ BridgeInit
    /\ session = NoSession
    /\ engine = NoEngine
    /\ peer = NoPeer
    /\ model \in { [NoModel EXCEPT !.goals.goalsMarkdown = Join(doc),
                                    !.goals.diff = Join(diff)] :
                        doc \in Lists(DocLines, MaxDocLines),
                        diff \in Lists(DiffLines, MaxDiffLines) }

NextPatch == \E hasDiff \in BOOLEAN : handleToolCall(hasDiff)

\* one apply_patch call on a goals document
SpecPatch == InitPatch /\ [][NextPatch]_vars

(* ------------------ text extraction, line by line --------------------- *)
\* lines that mix the two part shapes: a style-string followed by a
\* text-string, and an object with a text field
MixedLines ==
    { ContentLine(<< StrPart(<<"s">>), StrPart(<<"a">>), ObjPart(<<"b">>) >>),
      ContentLine(<< ObjPart(<<"b">>), StrPart(<<"s">>), StrPart(<<"a">>) >>) }

\* an update that carries one content block and no input request
BlockEvent(block) ==
    [gen |-> Undefined, disable |-> FALSE, content |-> << block >>, input |-> InputNone]

\* blocks of both window kinds: a mixed line, or a line followed by a
\* line entry without content
ExtractBlocks ==
    { TextBlock(<< line >>) : line \in MixedLines }
        \cup { GridBlock(<< line >>) : line \in MixedLines }
        \cup { TextBlock(<< ContentLine(<< ObjPart(<<"b">>) >>), EmptyLine >>),
               GridBlock(<< ContentLine(<< ObjPart(<<"b">>) >>), EmptyLine >>) }

ExtractEvents ==
    { BlockEvent(block) : block \in ExtractBlocks }
        \cup [gen : {Undefined}, disable : {FALSE}, content : {ContentNone},
              input : {InputLine}]

NextExtract ==
    \/ callStartOnce
    \/ runImmediate
    \/ \E command \in Commands : callExecuteCommand(command)
    \/ \E data \in ExtractEvents : glkOteUpdate(data)

\* the bridge driven with text of every line shape in both window kinds
SpecExtract == Init /\ [][NextExtract]_vars

(* ====================== properties and witnesses ====================== *)
Calls == 1 .. Len(promises)

\* an input event was handed to the engine in this step (the init
\* handshake of start() is not an input delivery)
InputDelivered ==
    /\ Len(accepted') = Len(accepted) + 1
    /\ Last(accepted').type \in {"line", "char"}

\* a promise was returned by a call of `op` in this step
Called(op) ==
    /\ Len(promises') = Len(promises) + 1
    /\ Last(promises').op = op

\* the input deliveries among the accepted events, in order
DeliveryIndexes == { i \in 1 .. Len(accepted) : accepted[i].type \in {"line", "char"} }

(* C1: whenever an update resolves the promise of start() or of an         *)
(* executeCommand() that delivered its command, the output is the trimmed  *)
(* concatenation of the text of the updates received since that            *)
(* delivery/start, the resolving one included.                             *)
C1_OutputIsTextSinceDelivery ==
    [][ \A i \in Calls :
          ( /\ promises[i].status = "pending"
            /\ promises'[i].status = "resolved"
            /\ (promises[i].op = "start" \/ promises[i].delivered) )
          => promises'[i].output = Trim(fresh') ]_vars

(* C2: whenever a command is delivered to the engine the output buffer is  *)
(* empty, so no text of an earlier update can appear in the response.      *)
C2_BufferEmptyAtDelivery ==
    [][ InputDelivered => outputBuffer = <<>> ]_vars

(* C3: the resolve function of every promise is invoked at most once.      *)
C3_ResolvedAtMostOnce ==
    \A i \in Calls : promises[i].resolverCalls <= 1

\* two calls have been resolved in turn: the update that resolved the later
\* one carried an input request after the earlier one had been resolved
C3_Witness ==
    \E i, j \in Calls :
        /\ i < j
        /\ promises[i].resolverCalls = 1
        /\ promises[j].resolverCalls = 1
        /\ promises[j].status = "resolved"

(* C4: an executeCommand() called while an earlier promise is pending      *)
(* delivers nothing and leaves the waiting caller in the resolver slot.    *)
C4_NoOverlappingDelivery ==
    [][ ( /\ Called("executeCommand")
          /\ \E i \in Calls : promises[i].status = "pending" )
        => ( accepted' = accepted /\ inputResolver' = inputResolver ) ]_vars

(* C5: executeCommand() is rejected whenever no start() promise has been   *)
(* resolved yet.                                                           *)
C5_NotRunningBeforeStartResolves ==
    [][ ( /\ Called("executeCommand")
          /\ ~ \E i \in Calls : promises[i].op = "start" /\ promises[i].status = "resolved" )
        => Last(promises').status = "rejected" ]_vars

(* C6: once dispose() has been called the bridge never runs again: every   *)
(* later start()/executeCommand() is rejected and no input is delivered.   *)
C6_DisposedIsAbsorbing ==
    [][ disposed =>
          /\ ~ isRunning'
          /\ (Len(promises') = Len(promises) + 1 => Last(promises').status = "rejected")
          /\ ~ InputDelivered ]_vars

(* C7: an executeCommand() made after dispose() is rejected and changes    *)
(* neither history, turn number, resolver slot, buffer nor delivers input. *)
C7_ExecuteAfterDisposeHasNoEffect ==
    [][ ( disposed /\ Called("executeCommand") ) =>
          /\ Last(promises').status = "rejected"
          /\ UNCHANGED << state, inputResolver, outputBuffer, accepted >> ]_vars

(* C8: every input event delivered carries the gen of the most recent      *)
(* update that had a gen field, 0 if none had.                             *)
C8_DeliveryCarriesLatestGen ==
    [][ InputDelivered => Last(accepted').gen = latestGen ]_vars

\* two inputs were delivered, the later one with a lower generation: the
\* delivery follows the engine's latest value, not the largest seen
C8_Witness ==
    \E i, j \in DeliveryIndexes : i < j /\ accepted[i].gen > accepted[j].gen

(* C9 as stated: the gens of successive input deliveries never decrease,   *)
(* whatever updates the engine sends.                                      *)
C9_DeliveriesNonDecreasing ==
    \A i, j \in DeliveryIndexes : i < j => accepted[i].gen <= accepted[j].gen

(* C9 amended: the gens of successive input deliveries never decrease as   *)
(* long as the gens of the engine's updates never decrease.                *)
C9_NonDecreasingWhenEngineIs ==
    gensOrdered => C9_DeliveriesNonDecreasing

\* two deliveries with different generations, the engine's gens in order
C9_Witness ==
    /\ gensOrdered
    /\ \E i, j \in DeliveryIndexes : i < j /\ accepted[i].gen < accepted[j].gen

(* C10: a delivered input is the whole command in line mode and, in char   *)
(* mode, exactly one character: the command's first, or a space when the   *)
(* command is empty.                                                       *)
C10_PayloadFollowsMode ==
    [][ InputDelivered =>
        LET e == Last(accepted')
            command == Last(state'.history).command
        IN /\ pendingInputType \in {"line", "char"}
           /\ e.type = pendingInputType
           /\ pendingInputType = "line" => e.value = command
           /\ pendingInputType = "char" =>
                /\ Len(e.value) = 1
                /\ e.value = IF command = <<>> THEN << SP >> ELSE << command[1] >> ]_vars

\* an empty command was delivered in char mode, and a two-character one
C10_Witness ==
    /\ \E i \in DeliveryIndexes : accepted[i].type = "char" /\ accepted[i].value = << SP >>
    /\ \E i \in DeliveryIndexes : accepted[i].type = "char" /\ accepted[i].value = << "g" >>

(* ------------------------------ run() --------------------------------- *)
Min(a, b) == IF a < b THEN a ELSE b

\* run() has returned a SessionResult
RunReturned == session.pc = "done"
RunResult == session.result[1]

\* the executeCommand calls made so far
CommandsIssued == { i \in Calls : promises[i].op = "executeCommand" }

(* C11: with an engine that raises exactly N input requests and then      *)
(* signals termination, a run in which no collaborator fails returns       *)
(* exactly min(N, maxTurns) turns.                                         *)
C11_RunReturnsScriptedTurns ==
    (RunReturned /\ RunResult.success) =>
        Len(RunResult.history) = Min(engine.script, session.maxTurns)

(* C12: when act or executeCommand throws on turn k, run() returns        *)
(* success false, a non-empty error, and exactly the k-1 turns completed   *)
(* before.                                                                 *)
C12_FailureKeepsCompletedTurns ==
    (RunReturned /\ session.failedCall \in {"act", "executeCommand"}) =>
        /\ ~ RunResult.success
        /\ RunResult.hasError
        /\ RunResult.error # <<>>
        /\ Len(RunResult.history) = session.failedTurn - 1

(* C13: the promise of run() is never rejected, whichever collaborator    *)
(* call throws.                                                            *)
C13_RunNeverRejects == session.pc # "rejected"

(* C14: when observe throws on turn k the loop is not left through the    *)
(* failure path: run() goes on with the next iteration, or with the        *)
(* metrics when the game has ended.                                        *)
C14_ObserveFailureNotFatal ==
    [][ session'.observeFailures > session.observeFailures =>
            session'.pc \in {"loop", "metrics"} ]_vars

(* C15: for every configured maxTurns >= 0, zero included, neither the    *)
(* number of commands run() hands to the bridge nor the length of its      *)
(* history exceeds maxTurns.                                               *)
C15_AtMostMaxTurns ==
    /\ Cardinality(CommandsIssued) <= session.maxTurns
    /\ Len(session.history) <= session.maxTurns

(* C16: once run() has seen the end of the game (gameEnded in the result  *)
(* of executeCommand, or isEnded at the top of an iteration) it calls      *)
(* neither act nor executeCommand again: it is past the loop, at the       *)
(* observe call of the last turn or collecting the metrics.                *)
C16_NoTurnAfterEnd ==
    session.endSeen =>
        /\ session.pc \in {"observe", "metrics", "catch", "done", "rejected"}
        /\ Cardinality(CommandsIssued) = Len(session.history)

\* a run that played a turn, then found the game ended at the top of the
\* next iteration, and returned
C16_Witness ==
    /\ RunReturned
    /\ RunResult.success
    /\ session.endSeen
    /\ ~ session.gameEnded
    /\ Len(RunResult.history) >= 1

(* C17: the GameState handed to act is a copy: what it shows, its         *)
(* history included, stays what it was when getState() returned it.        *)
C17_SnapshotIsCopy ==
    \A k \in 1 .. Len(session.handed) :
        LET h == session.handed[k] IN
        Deref(h.state.history) = h.historyThen

\* the entries of a history are numbered 1, 2, ...
NumberedFromOne(history) ==
    \A i \in 1 .. Len(history) : history[i].turnNumber = i

(* C18: in the history of a SessionResult and in the history of every     *)
(* GameState handed to the decision-maker, the i-th entry has turn         *)
(* number i.                                                               *)
C18_TurnsNumberedFromOne ==
    /\ RunReturned => NumberedFromOne(RunResult.history)
    /\ \A k \in 1 .. Len(session.handed) :
            NumberedFromOne(session.handed[k].historyThen)

(* C19: right after executeCommand has delivered an input the bridge      *)
(* holds no pending request: window and mode are cleared.                  *)
C19_RequestClearedByDelivery ==
    [][ InputDelivered =>
            /\ currentWindowId' = Null
            /\ pendingInputType' = "null" ]_vars

(* C20: when the engine reports a fatal error through its error callback  *)
(* before it has raised any input request, the pending promise of start()  *)
(* is eventually rejected.                                                 *)
C20_FatalErrorRejectsStart ==
    (/\ engine.failed
     /\ currentWindowId = Null
     /\ promises # <<>>
     /\ promises[1].status = "pending")
        ~> (promises # <<>> /\ promises[1].status = "rejected")

(* ----------------------- update events, again ------------------------- *)
\* no entry of the event's input list asks for a line or a character
NoInputRequest(data) ==
    \A i \in 1 .. Len(data.input) : data.input[i].type \notin {"line", "char"}

(* C21: an update that carries no line or char input request resolves no  *)
(* caller, only appends its text to the output buffer, and leaves the      *)
(* recorded window and input mode as they are.                             *)
C21_OnlyRequestsResolve ==
    [][ \A data \in TextEvents :
          (NoInputRequest(data) /\ glkOteUpdate(data)) =>
              /\ promises' = promises
              /\ inputResolver' = inputResolver
              /\ outputBuffer' = outputBuffer \o ExtractText(data.content)
              /\ currentWindowId' = currentWindowId
              /\ pendingInputType' = pendingInputType ]_vars

\* a caller that delivered its command still waits, and text has arrived
\* for it in updates without an input request
C21_Witness ==
    /\ inputResolver # Null
    /\ promises[inputResolver].status = "pending"
    /\ promises[inputResolver].delivered
    /\ awaiting
    /\ fresh # <<>>
    /\ outputBuffer # <<>>

(* --------------------------- run(), again ----------------------------- *)
\* a call of the decision-maker is in flight
AgentCallInFlight ==
    session.pc \in {"initialize", "act", "observe", "metrics", "catch"}

\* the promises of the bridge that have not settled
PendingCalls == { i \in Calls : promises[i].status = "pending" }

(* C22: run() calls start, then initialize, then per turn getState, act,  *)
(* executeCommand and observe in this order, and getMetrics last; it has   *)
(* at most one call in flight, so no call of the decision-maker is in      *)
(* flight while a promise of the bridge is pending.                        *)
C22_CallsSequential ==
    /\ AgentCallInFlight => PendingCalls = {}
    /\ Cardinality(PendingCalls) <= 1
    /\ session.pc # "start" =>
            /\ promises # <<>>
            /\ promises[1].op = "start"
            /\ \A i \in Calls : i > 1 => promises[i].op = "executeCommand"
    /\ session.pc \in {"awaitStart", "initialize"} =>
            Len(promises) = 1 /\ session.handed = <<>>
    /\ session.pc = "initialize" => promises[1].status = "resolved"
    /\ session.pc = "act" =>
            /\ Len(session.handed) = session.turnNumber
            /\ Cardinality(CommandsIssued) = session.turnNumber - 1
            /\ Len(session.history) = session.turnNumber - 1
    /\ session.pc = "awaitExec" =>
            /\ Len(session.handed) = session.turnNumber
            /\ Cardinality(CommandsIssued) = session.turnNumber
            /\ Len(session.history) = session.turnNumber - 1
    /\ session.pc = "observe" =>
            /\ Len(session.handed) = session.turnNumber
            /\ Cardinality(CommandsIssued) = session.turnNumber
            /\ Len(session.history) = session.turnNumber
    /\ session.pc \in {"loop", "metrics"} =>
            /\ Len(session.handed) = session.turnNumber
            /\ Cardinality(CommandsIssued) = session.turnNumber
            /\ Len(session.history) = session.turnNumber

\* observe is in flight on the second turn
C22_Witness ==
    /\ session.pc = "observe"
    /\ session.turnNumber = 2
    /\ PendingCalls = {}

(* C23: the i-th turn of run()'s history holds the command that the      *)
(* i-th executeCommand call delivered to the engine and the output that    *)
(* very call was resolved with.                                            *)
C23_TurnPairsCommandAndResponse ==
    \A i \in 1 .. Len(session.history) :
        LET turn == session.history[i]
            call == promises[i + 1]
        IN /\ call.op = "executeCommand"
           /\ call.status = "resolved"
           /\ call.delivered
           /\ i + 1 \in DeliveryIndexes
           /\ turn.command = accepted[i + 1].value
           /\ turn.response = call.output

\* two turns with different commands and different, non-empty responses
C23_Witness ==
    /\ Len(session.history) = 2
    /\ session.history[1].command # session.history[2].command
    /\ session.history[1].response # <<>>
    /\ session.history[2].response # <<>>
    /\ session.history[1].response # session.history[2].response

(* --------------------------- two bridges ------------------------------ *)
\* the characters of s are those of the text bridge `id` is sent
OnlyOwnText(s, id) ==
    \A i \in 1 .. Len(s) : s[i] \in {BridgeCommand(id)[1], NL}

\* every field of bridge b holds what b itself was given, or its initial value
Untouched(b) ==
    /\ OnlyOwnText(b.outputBuffer, b.id)
    /\ b.generation \in {0, BridgeGen(b.id)}
    /\ b.currentWindowId \in {Null, BridgeInput(b.id)[1].id}
    /\ b.pendingInputType \in {"null", BridgeInput(b.id)[1].type}
    /\ b.inputResolver \in {Null} \cup (1 .. Len(b.promises))
    /\ \A i \in 1 .. Len(b.promises) : OnlyOwnText(b.promises[i].output, b.id)
    /\ b.state.turnNumber = Len(b.state.history)
    /\ \A i \in 1 .. Len(b.state.history) :
            /\ b.state.history[i].command = BridgeCommand(b.id)
            /\ OnlyOwnText(b.state.history[i].response, b.id)
    /\ Len(b.state.history) =
            Cardinality({ i \in 1 .. Len(b.promises) :
                            /\ b.promises[i].op = "executeCommand"
                            /\ b.promises[i].status # "rejected" })

Orphaned(i) == promises[i].status = "pending" /\ inputResolver # i

(* C25: with sessions run in parallel on one game, no pending start() or  *)
(* executeCommand() promise of one session is orphaned by a call of        *)
(* another: every pending promise can still be settled by the engine's     *)
(* next input request.                                                     *)
C25_NoCallOrphaned == \A i \in Calls : ~ Orphaned(i)

(* C26: handleUpdate throws for no update event, whatever the shape of  *)
(* its content blocks and of its input list.                               *)
C26_UpdateNeverThrows == ~ engine.threw

(* C27: when generateAction is given a tool handler and every tool call *)
(* gives a result, the action it returns is built from a response of the   *)
(* language model that asks for no tool call, however many rounds of tool  *)
(* calls came before.                                                      *)
C27_ActionFromFinalText ==
    (model.pc = "done" /\ model.hasHandler /\ model.answered) =>
        model.result[1].toolCalls = 0

(* C28: an update that arrives after dispose() resolves no caller and    *)
(* changes neither the output buffer nor the pending request nor the turn  *)
(* history.                                                                *)
C28_UpdatesInertAfterDispose ==
    [][ (disposed /\ \E data \in TextEvents : glkOteUpdate(data)) =>
            /\ promises' = promises
            /\ outputBuffer' = outputBuffer
            /\ currentWindowId' = currentWindowId
            /\ pendingInputType' = pendingInputType
            /\ state'.history = state.history ]_vars

(* ------------------------ text extraction ----------------------------- *)
RECURSIVE Newlines(_)
Newlines(s) ==
    IF s = <<>> THEN 0
    ELSE (IF Head(s) = NL THEN 1 ELSE 0) + Newlines(Tail(s))

\* the line entries of a content block
LogicalLines(block) == IF block.hasText THEN Len(block.text) ELSE Len(block.lines)

(* C29: an update appends one newline to the output buffer for every line *)
(* entry of its content block, a line entry without content included, in   *)
(* buffer windows and in grid windows.                                     *)
C29_OneNewlinePerLine ==
    [][ \A block \in ExtractBlocks :
          glkOteUpdate(BlockEvent(block)) =>
              Newlines(outputBuffer') = Newlines(outputBuffer) + LogicalLines(block) ]_vars

(* C30: for a line that mixes the two part shapes, the update that brings *)
(* it in a buffer window appends the text that is extracted from the same  *)
(* line in a grid window.                                                  *)
C30_SameTextInBothWindowKinds ==
    [][ \A line \in MixedLines :
          glkOteUpdate(BlockEvent(TextBlock(<< line >>))) =>
              outputBuffer' = outputBuffer \o ExtractText(<< GridBlock(<< line >>) >>) ]_vars

(* ------------------------ the end of the game ------------------------- *)
(* C31: an executeCommand call whose input was delivered is settled by the *)
(* engine's answer also when that answer is a terminal update (disable     *)
(* set, no line or char input request): the call is then resolved with     *)
(* gameEnded = true.                                                       *)
C31_TerminalUpdateSettlesCall ==
    [][ \A data \in InputEvents :
          ( /\ data.disable
            /\ NoInputRequest(data)
            /\ inputResolver # Null
            /\ promises[inputResolver].op = "executeCommand"
            /\ promises[inputResolver].delivered
            /\ promises[inputResolver].status = "pending"
            /\ glkOteUpdate(data) )
          => /\ promises'[inputResolver].status = "resolved"
             /\ promises'[inputResolver].gameEnded ]_vars

(* ------------------ an engine that answers at once -------------------- *)
(* C32: start() and executeCommand() fill the waiting-caller slot before   *)
(* the engine is invoked, so an update with an input request that the      *)
(* engine sends from inside that invocation finds the current caller in    *)
(* the slot and resolves it with the text received so far.                 *)
C32_SyncAnswerResolvesCaller ==
    [][ \A data \in TextEvents :
          ( /\ syncUpdate(data)
            /\ ~ NoInputRequest(data)
            /\ Last(promises).status = "pending" )
          => /\ inputResolver = Len(promises)
             /\ promises'[Len(promises)].status = "resolved"
             /\ promises'[Len(promises)].output =
                    Trim(outputBuffer \o ExtractText(data.content)) ]_vars

\* start() and then an executeCommand() have both been resolved, the
\* latter with text, before the accept call that delivered its command
\* has returned
C32_Witness ==
    /\ engine.inCall = "accept"
    /\ Len(promises) = 2
    /\ promises[1].status = "resolved"
    /\ promises[2].op = "executeCommand"
    /\ promises[2].delivered
    /\ promises[2].status = "resolved"
    /\ promises[2].output # <<>>

(* ------------------------ the pending request ------------------------- *)
\* the entries of an event's input list that ask for a line or a character
Asks(data) == { k \in 1 .. Len(data.input) : data.input[k].type \in {"line", "char"} }

\* the first of them
FirstAsk(data) == CHOOSE k \in Asks(data) : \A j \in Asks(data) : k <= j

(* C33: every update that carries a line or char request records it        *)
(* (window id and mode), an update without one leaves the record alone,    *)
(* and nothing but an update changes it, so the record is the most recent  *)
(* request; an input is delivered only when a request is recorded, to      *)
(* that window and in that mode; with no recorded request executeCommand   *)
(* delivers nothing.                                                       *)
C33_DeliveryFollowsLatestRequest ==
    [][ /\ \A data \in InputEvents :
              \/ IF Asks(data) = {}
                 THEN UNCHANGED << currentWindowId, pendingInputType >>
                 ELSE /\ currentWindowId' = data.input[FirstAsk(data)].id
                      /\ pendingInputType' = data.input[FirstAsk(data)].type
              \/ ~ glkOteUpdate(data)
        /\ \/ UNCHANGED << currentWindowId, pendingInputType >>
           \/ \E data \in InputEvents : glkOteUpdate(data)
        /\ InputDelivered =>
              /\ currentWindowId # Null
              /\ pendingInputType \in {"line", "char"}
              /\ Last(accepted').window = currentWindowId
              /\ Last(accepted').type = pendingInputType
        /\ (Called("executeCommand") /\ currentWindowId = Null) =>
              accepted' = accepted ]_vars

\* a line went to window 1 and then, after a char request had been
\* recorded, a character to window 2
C33_Witness ==
    /\ currentWindowId = 2
    /\ pendingInputType = "char"
    /\ \E i, j \in DeliveryIndexes :
            /\ i < j
            /\ accepted[i].type = "line" /\ accepted[i].window = 1
            /\ accepted[j].type = "char" /\ accepted[j].window = 2

Pairs(history) ==
    [i \in 1 .. Len(history) |-> << history[i].command, history[i].response >>]

(* C35: whenever run() calls act(state), the history of the bridge that    *)
(* state shows and the history of run() hold the same (command, response)  *)
(* pairs in the same order, each response being the output its command     *)
(* was resolved with.                                                      *)
C35_HistoriesAgreeAtAct ==
    session.pc = "act" =>
        /\ Pairs(Deref(Last(session.handed).state.history)) = Pairs(session.history)
        /\ \A i \in 1 .. Len(state.history) :
                state.history[i].response = promises[i + 1].output

\* act is called for the third turn, after two turns with responses
C35_Witness ==
    /\ session.pc = "act"
    /\ Len(state.history) = 2
    /\ state.history[1].response # <<>>
    /\ state.history[2].response # <<>>

(* --------------------------- the metrics ------------------------------ *)
(* C36: with an agent that uses BaseAgent's observe, reset and getMetrics  *)
(* and whose initialize calls reset, the SessionResult of run(), when it   *)
(* succeeds and when it fails, has metrics.totalTurns = turns and          *)
(* metrics.uniqueCommands <= metrics.totalTurns.                           *)
C36_MetricsMatchTurns ==
    RunReturned =>
        /\ RunResult.metrics.totalTurns = RunResult.turns
        /\ RunResult.metrics.uniqueCommands <= RunResult.metrics.totalTurns

(* ----------------------- act() of the agents -------------------------- *)
(* C37: the promise of act() of PromptCacheAgent, GoalsAgent and           *)
(* OpenAIAgent is never rejected; when the call of the language model or   *)
(* the parsing of its response throws, act resolves with the command       *)
(* 'look' and confidence 0.                                                *)
C37_ActNeverRejects ==
    /\ model.act.pc # "rejected"
    /\ (model.act.pc = "resolved" /\ model.act.threw) =>
            /\ model.act.result[1].command = << "l", "o", "o", "k" >>
            /\ model.act.result[1].confidence = 0

\* GoalsAgent's act has resolved with the fallback after generateAction
\* was rejected in the middle of its tool loop
C37_Witness ==
    /\ model.act.pc = "resolved"
    /\ model.act.agent = "GoalsAgent"
    /\ model.act.threw
    /\ model.loops >= 1
    /\ model.pc = "tool"

(* ------------------------ the goals document -------------------------- *)
RECURSIVE IsSubsequence(_, _)
IsSubsequence(a, b) ==
    IF a = <<>> THEN TRUE
    ELSE IF b = <<>> THEN FALSE
    ELSE IF Head(a) = Head(b) THEN IsSubsequence(Tail(a), Tail(b))
    ELSE IsSubsequence(a, Tail(b))

\* the lines of the result that are not insertions of the diff
KeptLines ==
    LET kept == SelectSeq(model.goals.pushed, LAMBDA e : ~ e.inserted)
    IN [k \in 1 .. Len(kept) |-> kept[k].text]

\* the lines of the diff that begin with `mark`
Marked(mark) ==
    LET diffLines == Split(model.goals.diff)
    IN { i \in 1 .. Len(diffLines) : StartsWith(diffLines[i], mark) }

(* C38: for a diff that contains a hunk marker, the lines of the patched   *)
(* document other than the inserted '+' lines are a subsequence of the     *)
(* original lines, the original lines missing from it are at most as many  *)
(* as the '-' lines of the diff, and a diff of hunk markers and context     *)
(* lines only gives back the document unchanged.                           *)
C38_PatchDropsOnlyRemovedLines ==
    (model.goals.patched /\ Includes(model.goals.diff, << "@", "@" >>)) =>
        LET lines == Split(model.goals.before) IN
        /\ IsSubsequence(KeptLines, lines)
        /\ Len(lines) - Len(KeptLines) <= Cardinality(Marked(<< "-" >>))
        /\ (Marked(<< "-" >>) \cup Marked(<< "+" >>) = {}) =>
                model.goals.goalsMarkdown = model.goals.before

\* a diff with a marker, a removal that skips a line and an insertion has
\* removed the second line of the document
C38_Witness ==
    /\ model.goals.patched
    /\ model.goals.before = << SP, "a", NL, "a" >>
    /\ model.goals.diff = << "@", "@", NL, SP, "a", NL, "-", "a" >>
    /\ model.goals.goalsMarkdown = << SP, "a" >>

====
